---- MODULE Spec2Model ----
(***************************************************************************)
(* sui::randomness (crates/sui-framework/sources/randomness.move).         *)
(*                                                                         *)
(* A Randomness object {id, epoch, value} is created unset, later set once *)
(* from a threshold-BLS signature over "randomness":epoch:id, read, and    *)
(* destroyed.  Every action of the model is one transaction, applied in    *)
(* full or not at all: a transaction whose call aborts leaves the ledger   *)
(* as it was.  A transaction on an existing object makes one call.  The    *)
(* creating transaction calls new, may try set on the object it holds, and *)
(* then has to transfer, share or destroy it, since Randomness has neither *)
(* drop nor store.  The threshold signature scheme is modelled             *)
(* symbolically: a signature is the pair (key epoch, message) it was made  *)
(* over, and the signature of an object can be retrieved from the          *)
(* validators only once the transaction that created it is committed.      *)
(*                                                                         *)
(* Three specifications share the initial state.  Spec is the ledger with  *)
(* every transaction.  RetrySpec is the ledger with one object at a time,  *)
(* counting the set calls on it that aborted with EInvalidSignature.       *)
(* WalletSpec is the transactions page of the wallet                       *)
(* (apps/wallet/src/ui/app/hooks/useGetTransactionsByAddress.ts): the      *)
(* active address, the selected API environment and the query cache that   *)
(* useGetTransactionsByAddress reads and the page invalidates.             *)
(***************************************************************************)
EXTENDS Integers, Sequences, FiniteSets, TLC

(* ------------------------------ bounds --------------------------------- *)
MaxObjects == 2
MaxEpoch == 1
MaxSetCalls == 2
MaxRejected == 2

(* ---------------------------- constants -------------------------------- *)
EInvalidSignature == 0
EAlreadySet == 1
\* b"randomness"
Domain == <<114, 97, 110, 100, 111, 109, 110, 101, 115, 115>>
\* width in bytes of an object ID
IdWidth == 4

Addresses == {"A"}
Epochs == 0 .. MaxEpoch
Ids == 1 .. MaxObjects

(* ------------------------- option::Option ------------------------------ *)
option_none == <<>>
option_some(x) == <<x>>
option_is_none(o) == Len(o) = 0

(* ------------------------- byte encodings ------------------------------ *)
RECURSIVE le_bytes(_, _)
le_bytes(n, w) == IF w = 0 THEN <<>> ELSE <<n % 256>> \o le_bytes(n \div 256, w - 1)

RECURSIVE be_bytes(_, _)
be_bytes(n, w) == IF w = 0 THEN <<>> ELSE Append(be_bytes(n \div 256, w - 1), n % 256)

\* The encodings of the epochs and ids of the model, computed once.
BcsU64 == [n \in Epochs |-> le_bytes(n, 8)]
IdBytes == [n \in 0 .. MaxObjects |-> be_bytes(n, IdWidth)]

\* an encoding of u64 with the most significant byte first
bcs_to_bytes_msb_first(n) == be_bytes(n, 8)

\* bcs::to_bytes(&u64): 8 bytes, least significant byte first
bcs_to_bytes(n) == BcsU64[n]

\* object::id_to_bytes: the IdWidth bytes of the ID as they are written
id_to_bytes(id) == IdBytes[id]

\* to_bytes that leaves the id out of the message
to_bytes_no_id(domain, epoch, id) == domain \o bcs_to_bytes(epoch)

to_bytes(domain, epoch, id) == domain \o bcs_to_bytes(epoch) \o id_to_bytes(id)

(* --------------------- threshold BLS and sha3 -------------------------- *)
\* The one signature of the committee of key_epoch over msg.
native_tbls_sign(key_epoch, msg) == [kind |-> "tbls", key |-> key_epoch, msg |-> msg]

\* Bytes that are no committee's signature over anything.
Junk == [kind |-> "junk", key |-> 0, msg |-> <<>>]

native_verify_tbls_signature(epoch, msg, sig) ==
    sig.kind = "tbls" /\ sig.key = epoch /\ sig.msg = msg

\* Ideal hash: injective, and a digest is never equal to its preimage.
sha3_256(bytes) == [digest_of |-> bytes]

(* ------------------------- sui::randomness ----------------------------- *)
\* object::new(ctx) and tx_context::epoch(ctx)
object_new(ctx) == ctx.ids_created
tx_context_epoch(ctx) == ctx.epoch

\* new that stores epoch 0 instead of the epoch of the transaction
new_epoch_zero(ctx) == [id |-> object_new(ctx), epoch |-> 0, value |-> option_none]

\* new that returns an object whose value is already present
new_with_value(ctx) ==
    [id |-> object_new(ctx), epoch |-> tx_context_epoch(ctx),
     value |-> option_some(sha3_256(Junk))]

new(ctx) == [id |-> object_new(ctx), epoch |-> tx_context_epoch(ctx), value |-> option_none]

\* set without the EAlreadySet assertion
set_no_already_check(self, sig) ==
    LET msg == to_bytes(Domain, self.epoch, self.id) IN
    IF ~native_verify_tbls_signature(self.epoch, msg, sig)
    THEN [aborted |-> TRUE, code |-> EInvalidSignature, self |-> self]
    ELSE [aborted |-> FALSE, code |-> 0,
          self |-> [self EXCEPT !.value = option_some(sha3_256(sig))]]

\* set without any assertion
set_unchecked(self, sig) ==
    [aborted |-> FALSE, code |-> 0,
     self |-> [self EXCEPT !.value = option_some(sha3_256(sig))]]

\* set without the EInvalidSignature assertion
set_no_verify(self, sig) ==
    IF ~option_is_none(self.value)
    THEN [aborted |-> TRUE, code |-> EAlreadySet, self |-> self]
    ELSE [aborted |-> FALSE, code |-> 0,
          self |-> [self EXCEPT !.value = option_some(sha3_256(sig))]]

\* set with the two assertions in the other order
set_verify_first(self, sig) ==
    LET msg == to_bytes(Domain, self.epoch, self.id) IN
    IF ~native_verify_tbls_signature(self.epoch, msg, sig)
    THEN [aborted |-> TRUE, code |-> EInvalidSignature, self |-> self]
    ELSE IF ~option_is_none(self.value)
    THEN [aborted |-> TRUE, code |-> EAlreadySet, self |-> self]
    ELSE [aborted |-> FALSE, code |-> 0,
          self |-> [self EXCEPT !.value = option_some(sha3_256(sig))]]

\* set that stores the signature itself
set_store_raw(self, sig) ==
    IF ~option_is_none(self.value)
    THEN [aborted |-> TRUE, code |-> EAlreadySet, self |-> self]
    ELSE LET msg == to_bytes(Domain, self.epoch, self.id) IN
         IF ~native_verify_tbls_signature(self.epoch, msg, sig)
         THEN [aborted |-> TRUE, code |-> EInvalidSignature, self |-> self]
         ELSE [aborted |-> FALSE, code |-> 0,
               self |-> [self EXCEPT !.value = option_some(sig)]]

\* set that accepts, for this id, the signature of any epoch's committee over
\* that epoch's message
set_any_epoch(self, sig) ==
    IF ~option_is_none(self.value)
    THEN [aborted |-> TRUE, code |-> EAlreadySet, self |-> self]
    ELSE IF ~(\E e \in Epochs :
                native_verify_tbls_signature(e, to_bytes(Domain, e, self.id), sig))
         THEN [aborted |-> TRUE, code |-> EInvalidSignature, self |-> self]
         ELSE [aborted |-> FALSE, code |-> 0,
               self |-> [self EXCEPT !.value = option_some(sha3_256(sig))]]

\* set that remembers a failed verification in the object: it returns
\* having marked the object, where set aborts
set_marks_failure(self, sig) ==
    IF ~option_is_none(self.value)
    THEN [aborted |-> TRUE, code |-> EAlreadySet, self |-> self]
    ELSE LET msg == to_bytes(Domain, self.epoch, self.id) IN
         IF ~native_verify_tbls_signature(self.epoch, msg, sig)
         THEN [aborted |-> FALSE, code |-> 0,
               self |-> [self EXCEPT !.value = option_some(sha3_256(Junk))]]
         ELSE [aborted |-> FALSE, code |-> 0,
               self |-> [self EXCEPT !.value = option_some(sha3_256(sig))]]

\* set that also clears the epoch of the object when it stores the value
set_clears_epoch(self, sig) ==
    IF ~option_is_none(self.value)
    THEN [aborted |-> TRUE, code |-> EAlreadySet, self |-> self]
    ELSE LET msg == to_bytes(Domain, self.epoch, self.id) IN
         IF ~native_verify_tbls_signature(self.epoch, msg, sig)
         THEN [aborted |-> TRUE, code |-> EInvalidSignature, self |-> self]
         ELSE [aborted |-> FALSE, code |-> 0,
               self |-> [self EXCEPT !.value = option_some(sha3_256(sig)), !.epoch = 0]]

\* The outcome of set(self, sig): abort code, or self after the call.
set(self, sig) ==
    IF ~option_is_none(self.value)
    THEN [aborted |-> TRUE, code |-> EAlreadySet, self |-> self]
    ELSE LET msg == to_bytes(Domain, self.epoch, self.id) IN
         IF ~native_verify_tbls_signature(self.epoch, msg, sig)
         THEN [aborted |-> TRUE, code |-> EInvalidSignature, self |-> self]
         ELSE [aborted |-> FALSE, code |-> 0,
               self |-> [self EXCEPT !.value = option_some(sha3_256(sig))]]

epoch(self) == self.epoch

\* value that answers none whatever the object holds
value_always_none(self) == option_none

value(self) == self.value

sign(self) == native_tbls_sign(self.epoch, to_bytes(Domain, self.epoch, self.id))

(* ------------- wallet: useGetTransactionsByAddress.ts ------------------ *)
\* bytes in an address; an address has twice as many hex digits
SUI_ADDRESS_LENGTH == 2

ApiEnvs == {"local", "devNet", "testNet"}

\* The strings account.address may hold: two addresses in the form with
\* the 0x prefix and every digit, in lower case, the first of them also
\* without its leading zeros, the second also without prefix in upper case.
RawAddresses ==
    {<<"0", "x", "0", "0", "a", "b">>,
     <<"0", "x", "0", "0", "c", "d">>,
     <<"0", "x", "a", "b">>,
     <<"0", "0", "C", "D">>}

toLowerCase(str) ==
    [k \in 1 .. Len(str) |->
        CASE str[k] = "A" -> "a"
          [] str[k] = "B" -> "b"
          [] str[k] = "C" -> "c"
          [] str[k] = "D" -> "d"
          [] OTHER -> str[k]]

startsWith0x(str) == Len(str) >= 2 /\ str[1] = "0" /\ str[2] = "x"

slice(str, from) == SubSeq(str, from + 1, Len(str))

RECURSIVE padStart(_, _, _)
padStart(str, width, c) == IF Len(str) >= width THEN str ELSE padStart(<<c>> \o str, width, c)

\* normalizeSuiAddress: lower case, without 0x, zero-padded to the full
\* number of hex digits, with 0x in front
normalizeSuiAddress(str) ==
    LET lower == toLowerCase(str)
        address == IF startsWith0x(lower) THEN slice(lower, 2) ELSE lower
    IN <<"0", "x">> \o padStart(address, SUI_ADDRESS_LENGTH * 2, "0")

\* the key useGetTransactionsByAddress(address) caches under
hookKey(address) == <<"transactions-by-address", normalizeSuiAddress(address)>>

\* the key TransactionsPage passes to invalidateQueries
invalidateKey(activeAddr) == <<"transactions-by-address", activeAddr>>

\* getTransactionsByAddress: the transactions of the address on the full
\* node of the environment selected when the fetch is made
getTransactionsByAddress(env, address) == [FromAddress |-> address, env |-> env]

\* A query after a fetch: its data, not invalidated, within STALE_TIME.
Fetched(env, key) ==
    [data |-> getTransactionsByAddress(env, key[2]),
     isInvalidated |-> FALSE, withinStaleTime |-> TRUE]

isStale(query) == query.isInvalidated \/ ~query.withinStaleTime

\* A filter key matches the query keys that begin with it.
partialMatchKey(key, filterKey) ==
    /\ Len(filterKey) <= Len(key)
    /\ \A k \in 1 .. Len(filterKey) : key[k] = filterKey[k]

\* queryClient.invalidateQueries({queryKey}): the matching queries are
\* marked invalidated, and the one the page is observing is fetched again.
invalidateQueries(cache, filterKey, observed, env) ==
    [key \in DOMAIN cache |->
        IF ~partialMatchKey(key, filterKey) THEN cache[key]
        ELSE IF key = observed THEN Fetched(env, key)
        ELSE [cache[key] EXCEPT !.isInvalidated = TRUE]]

\* useQuery(key, ..., {refetchOnMount: true, staleTime}) when the page
\* starts to observe key: fetch when there is no data or the data is stale.
useQuery(cache, key, env) ==
    IF key \notin DOMAIN cache THEN (key :> Fetched(env, key)) @@ cache
    ELSE IF isStale(cache[key]) THEN [cache EXCEPT ![key] = Fetched(env, key)]
    ELSE cache

(* ------------------------------ state ---------------------------------- *)
VARIABLES
    objs,       \* the live Randomness objects on the ledger, by id
    owner,      \* per live object: the address that owns it, or "shared"
    nextId,     \* the ledger's fresh-id counter
    curEpoch,   \* the ledger's current epoch
    created,    \* the ids returned by new so far, in order
    hist,       \* per live object: the ledger epoch at its creation, the outcomes
                \* of the set transactions that carried its valid signature, and
                \* the signature, value and transaction of its first successful set
    last,       \* the last transaction: its call, arguments and result
    rejected,   \* per live object: the number of set transactions on it that
                \* aborted with EInvalidSignature (counted in RetrySpec only)
    activeAddress,   \* wallet: account.address of the store
    selectedApiEnv,  \* wallet: app.apiEnv of the store
    queryCache       \* wallet: the queries of the query client, by key

walletVars == <<activeAddress, selectedApiEnv, queryCache>>
ledgerVars == <<objs, owner, nextId, curEpoch, created, hist, last, rejected>>
vars == <<objs, owner, nextId, curEpoch, created, hist, last, rejected,
          activeAddress, selectedApiEnv, queryCache>>

Live == DOMAIN objs

NoObject == [id |-> 0, epoch |-> 0, value |-> option_none]

\* The signature of each epoch's committee over the message of each
\* (epoch, id) pair.
Signatures == [e \in Epochs |-> {native_tbls_sign(e, to_bytes(Domain, e, i)) : i \in Ids}]

\* Per (epoch, id): the byte strings, among the signatures of all committees
\* and bytes that are no signature, with which set succeeds on an unset
\* object of that epoch and id.
AcceptedBy ==
    [e \in Epochs, i \in Ids |->
        {sig \in UNION {Signatures[k] : k \in Epochs} \cup {Junk} :
            ~set([id |-> i, epoch |-> e, value |-> option_none], sig).aborted}]

\* Every byte string a caller may pass to set: the signatures of the
\* committees that have existed so far, and bytes that are no signature.
SigUniverse == UNION {Signatures[e] : e \in 0 .. curEpoch} \cup {Junk}

\* Unforgeability: the bytes a transaction can pass to set.  The signature
\* of an object can be retrieved from the validators once the transaction
\* that created the object is committed, so a transaction does not have the
\* signature of an object it creates itself.
Obtainable(uncommitted) == SigUniverse \ {sign(r) : r \in uncommitted}

\* The number of set transactions so far that carried the valid signature of
\* a live object.
ValidSetCalls == Cardinality(UNION {{i} \X (1 .. Len(hist[i].calls)) : i \in Live})

ResultName(r) ==
    IF ~r.aborted THEN "ok"
    ELSE IF r.code = EAlreadySet THEN "EAlreadySet" ELSE "EInvalidSignature"

Call(op, obj, sig, aborted, code, retValue, retEpoch) ==
    [op |-> op, obj |-> obj, sig |-> sig, aborted |-> aborted, code |-> code,
     retValue |-> retValue, retEpoch |-> retEpoch]

NewHist(e) ==
    [created_epoch |-> e, calls |-> <<>>, winner |-> Junk, set_value |-> option_none,
     set_by |-> "none"]

\* The history of an object after set(self, sig) returned s.
SetHist(h, self, sig, s, op) ==
    [h EXCEPT
       !.set_by = IF ~s.aborted /\ option_is_none(h.set_value) THEN op ELSE @,
       !.calls = IF sig = sign(self) THEN Append(@, ResultName(s)) ELSE @,
       !.winner = IF ~s.aborted /\ option_is_none(h.set_value) THEN sig ELSE @,
       !.set_value = IF ~s.aborted /\ option_is_none(@) THEN s.self.value ELSE @]

Init ==
    /\ objs = <<>>
    /\ owner = <<>>
    /\ nextId = 1
    /\ curEpoch = 0
    /\ created = <<>>
    /\ hist = <<>>
    /\ last = Call("init", NoObject, Junk, FALSE, 0, option_none, 0)
    /\ rejected = <<>>
    /\ activeAddress = <<"0", "x", "0", "0", "a", "b">>
    /\ selectedApiEnv = "devNet"
    /\ queryCache = useQuery(<<>>, hookKey(activeAddress), selectedApiEnv)

(* ----------------------------- actions --------------------------------- *)
\* What the creating transaction does with the object it holds.
Disposals == Addresses \cup {"shared", "destroy"}

\* transfer::transfer(self, to) and transfer::share_object(self)
\* share_object that leaves the object with an address as its owner
share_object_owned == "A"

transfer(to) == to
share_object == "shared"

Dispose(r, disp, h) ==
    IF disp = "destroy"
    THEN UNCHANGED <<objs, owner, hist>>
    ELSE /\ objs' = (r.id :> r) @@ objs
         /\ owner' = (r.id :> IF disp = "shared" THEN share_object ELSE transfer(disp)) @@ owner
         /\ hist' = (r.id :> h) @@ hist

\* new, then transfer, share_object or destroy
TxNew(disp) ==
    /\ nextId <= MaxObjects
    /\ LET r == new([epoch |-> curEpoch, ids_created |-> nextId]) IN
        /\ Dispose(r, disp, NewHist(curEpoch))
        /\ created' = Append(created, r.id)
        /\ last' = Call("new", r, Junk, FALSE, 0, option_none, 0)
    /\ nextId' = nextId + 1
    /\ UNCHANGED <<curEpoch>>

\* new, then set on the new object, then transfer, share_object or destroy
TxNewSet ==
    /\ nextId <= MaxObjects
    /\ LET r == new([epoch |-> curEpoch, ids_created |-> nextId]) IN
       \E sig \in Obtainable({r}) :
          LET s == set(r, sig) IN
            /\ IF s.aborted
               THEN UNCHANGED <<objs, owner, hist>>
               ELSE \E disp \in Disposals :
                        Dispose(s.self, disp, SetHist(NewHist(curEpoch), r, sig, s, "new_set"))
            /\ created' = Append(created, r.id)
            /\ last' = Call("new_set", r, sig, s.aborted, s.code, option_none, 0)
    /\ nextId' = nextId + 1
    /\ UNCHANGED <<curEpoch>>

\* An object can be passed by value when an address owns it.
ByValue(i) == i \in Live /\ owner[i] # "shared"

TxTransfer(i, to) ==
    /\ ByValue(i)
    /\ owner' = [owner EXCEPT ![i] = transfer(to)]
    /\ last' = Call("transfer", objs[i], Junk, FALSE, 0, option_none, 0)
    /\ UNCHANGED <<objs, nextId, curEpoch, created, hist>>

TxShareObject(i) ==
    /\ ByValue(i)
    /\ owner' = [owner EXCEPT ![i] = share_object]
    /\ last' = Call("share_object", objs[i], Junk, FALSE, 0, option_none, 0)
    /\ UNCHANGED <<objs, nextId, curEpoch, created, hist>>

TxSet(i) ==
    /\ i \in Live
    /\ \E sig \in Obtainable({}) :
          LET s == set(objs[i], sig) IN
            /\ sig = sign(objs[i]) => ValidSetCalls < MaxSetCalls
            /\ objs' = IF s.aborted THEN objs ELSE [objs EXCEPT ![i] = s.self]
            /\ hist' = [hist EXCEPT ![i] = SetHist(@, objs[i], sig, s, "set")]
            /\ last' = Call("set", objs[i], sig, s.aborted, s.code, option_none, 0)
    /\ UNCHANGED <<owner, nextId, curEpoch, created>>

\* object::delete that leaves the object on the ledger
object_delete_keep(ledger, id) == ledger

\* object::delete(id): the ledger without the object of that id
object_delete(ledger, id) == [j \in DOMAIN ledger \ {id} |-> ledger[j]]

TxDestroy(i) ==
    /\ ByValue(i)
    /\ objs' = object_delete(objs, i)
    /\ owner' = object_delete(owner, i)
    /\ hist' = object_delete(hist, i)
    /\ last' = Call("destroy", objs[i], Junk, FALSE, 0, option_none, 0)
    /\ UNCHANGED <<nextId, curEpoch, created>>

TxEpoch(i) ==
    /\ i \in Live
    /\ last' = Call("epoch", objs[i], Junk, FALSE, 0, option_none, epoch(objs[i]))
    /\ UNCHANGED <<objs, owner, nextId, curEpoch, created, hist>>

TxValue(i) ==
    /\ i \in Live
    /\ last' = Call("value", objs[i], Junk, FALSE, 0, value(objs[i]), 0)
    /\ UNCHANGED <<objs, owner, nextId, curEpoch, created, hist>>

\* The ledger moves to the next epoch.
AdvanceEpoch ==
    /\ curEpoch < MaxEpoch
    /\ curEpoch' = curEpoch + 1
    /\ last' = Call("advance_epoch", NoObject, Junk, FALSE, 0, option_none, 0)
    /\ UNCHANGED <<objs, owner, nextId, created, hist>>

\* The ledger as a whole.  The aborted set calls are not counted here.
Next ==
    \/ (\E disp \in Disposals : TxNew(disp)) /\ UNCHANGED <<rejected, walletVars>>
    \/ TxNewSet /\ UNCHANGED <<rejected, walletVars>>
    \/ (\E i \in Ids, to \in Addresses : TxTransfer(i, to)) /\ UNCHANGED <<rejected, walletVars>>
    \/ (\E i \in Ids : TxShareObject(i)) /\ UNCHANGED <<rejected, walletVars>>
    \/ (\E i \in Ids : TxSet(i)) /\ UNCHANGED <<rejected, walletVars>>
    \/ (\E i \in Ids : TxDestroy(i)) /\ UNCHANGED <<rejected, walletVars>>
    \/ (\E i \in Ids : TxEpoch(i)) /\ UNCHANGED <<rejected, walletVars>>
    \/ (\E i \in Ids : TxValue(i)) /\ UNCHANGED <<rejected, walletVars>>
    \/ AdvanceEpoch /\ UNCHANGED <<rejected, walletVars>>

Spec == Init /\ [][Next]_vars

\* The number of set transactions counted in rejected.
RejectedSetCalls == Cardinality(UNION {{i} \X (1 .. rejected[i]) : i \in DOMAIN rejected})

\* new while no other object is live, counting from zero the aborted set
\* calls on the new object
RetryNew(disp) ==
    /\ Live = {}
    /\ TxNew(disp)
    /\ rejected' = IF disp = "destroy" THEN rejected ELSE (nextId :> 0) @@ rejected
    /\ UNCHANGED walletVars

\* set, counting the call when it aborts with EInvalidSignature
RetrySet(i) ==
    /\ TxSet(i)
    /\ IF last'.aborted /\ last'.code = EInvalidSignature
       THEN /\ RejectedSetCalls < MaxRejected
            /\ rejected' = [rejected EXCEPT ![i] = @ + 1]
       ELSE UNCHANGED rejected
    /\ UNCHANGED walletVars

RetryDestroy(i) ==
    /\ TxDestroy(i)
    /\ rejected' = object_delete(rejected, i)
    /\ UNCHANGED walletVars

RetryAdvanceEpoch == AdvanceEpoch /\ UNCHANGED <<rejected, walletVars>>

\* One object at a time is created, has set tried on it again and again, and
\* is destroyed.
RetryNext ==
    \/ \E disp \in Disposals : RetryNew(disp)
    \/ \E i \in Ids : RetrySet(i)
    \/ \E i \in Ids : RetryDestroy(i)
    \/ RetryAdvanceEpoch

RetrySpec == Init /\ [][RetryNext]_vars

(* ---------------------- wallet: TransactionsPage ----------------------- *)
\* The active account changes.  The page renders with the new address: the
\* effect invalidates the queries under invalidateKey, and the hook observes
\* the query under hookKey.
SwitchAccount(address) ==
    /\ address # activeAddress
    /\ activeAddress' = address
    /\ queryCache' = useQuery(invalidateQueries(queryCache, invalidateKey(address),
                                                hookKey(address), selectedApiEnv),
                              hookKey(address), selectedApiEnv)
    /\ UNCHANGED <<selectedApiEnv, ledgerVars>>

\* The selected API environment changes.  The effect runs again; the hook
\* goes on observing the same query.
SwitchApiEnv(env) ==
    /\ env # selectedApiEnv
    /\ selectedApiEnv' = env
    /\ queryCache' = invalidateQueries(queryCache, invalidateKey(activeAddress),
                                       hookKey(activeAddress), env)
    /\ UNCHANGED <<activeAddress, ledgerVars>>

\* STALE_TIME passes since the last fetch of every query.
StaleTimeElapses ==
    /\ \E key \in DOMAIN queryCache : queryCache[key].withinStaleTime
    /\ queryCache' = [key \in DOMAIN queryCache |->
                         [queryCache[key] EXCEPT !.withinStaleTime = FALSE]]
    /\ UNCHANGED <<activeAddress, selectedApiEnv, ledgerVars>>

\* The window gets the focus: the observed query is fetched again when it
\* is stale.
WindowFocus ==
    /\ isStale(queryCache[hookKey(activeAddress)])
    /\ queryCache' = [queryCache EXCEPT ![hookKey(activeAddress)] =
                                           Fetched(selectedApiEnv, hookKey(activeAddress))]
    /\ UNCHANGED <<activeAddress, selectedApiEnv, ledgerVars>>

WalletNext ==
    \/ \E address \in RawAddresses : SwitchAccount(address)
    \/ \E env \in ApiEnvs : SwitchApiEnv(env)
    \/ StaleTimeElapses
    \/ WindowFocus

WalletSpec == Init /\ [][WalletNext]_vars

TypeOK ==
    /\ Live \subseteq 1 .. (nextId - 1)
    /\ DOMAIN owner = Live /\ DOMAIN hist = Live
    /\ nextId \in 1 .. MaxObjects + 1
    /\ curEpoch \in Epochs
    /\ \A i \in Live : objs[i].id = i /\ objs[i].epoch \in 0 .. curEpoch
    /\ DOMAIN rejected \subseteq Live
    /\ \A i \in DOMAIN rejected : rejected[i] \in 0 .. MaxRejected
    /\ activeAddress \in RawAddresses
    /\ selectedApiEnv \in ApiEnvs
    /\ hookKey(activeAddress) \in DOMAIN queryCache
    /\ \A key \in DOMAIN queryCache :
          /\ key \in {hookKey(address) : address \in RawAddresses}
          /\ queryCache[key].data.FromAddress = key[2]
          /\ queryCache[key].data.env \in ApiEnvs

(* ------------------------------ claims --------------------------------- *)
\* The last transaction called set (alone, or after new on the object it created).
SetCalled == last.op \in {"set", "new_set"}

\* The ledger epoch at which the object the last call acted on was created.
LastCreatedEpoch ==
    IF last.op = "set" THEN hist[last.obj.id].created_epoch ELSE curEpoch

\* C1: of the set transactions on an object that each carry its valid
\* signature, in any order, exactly one succeeds (the first), all others abort
\* with EAlreadySet, and the object's value is sha3_256 of the signature
\* passed to the successful one.
C1_ExactlyOneSetSucceeds ==
    \A i \in Live :
        LET c == hist[i].calls IN
        Len(c) >= 1 =>
            /\ Cardinality({k \in 1 .. Len(c) : c[k] = "ok"}) = 1
            /\ Cardinality({k \in 1 .. Len(c) : c[k] = "EAlreadySet"}) = Len(c) - 1
            /\ objs[i].value = option_some(sha3_256(hist[i].winner))

C1_Witness ==
    \E i \in Live : Len(hist[i].calls) >= 2 /\ last.op = "set" /\ last.aborted

\* C2: once an object's value is some(v), no transaction changes it to none
\* or to another some(v'), for as long as the object lives; so the value
\* changes from none to some at most once.
C2_ValueNeverChangesOnceSet ==
    [][\A i \in Live :
          (~option_is_none(objs[i].value) /\ i \in DOMAIN objs')
              => objs'[i].value = objs[i].value]_vars

C2_Witness ==
    /\ last.op \in {"set", "transfer", "share_object"}
    /\ ~option_is_none(last.obj.value)
    /\ last.obj.id \in Live

\* C3: set on an unset object with bytes that are not the signature over the
\* object's own (epoch, id) message aborts with EInvalidSignature, and the
\* object is afterwards as it was: value none, id and epoch unchanged.
C3_ForgeryRejected ==
    (SetCalled /\ option_is_none(last.obj.value) /\ last.sig # sign(last.obj))
        => /\ last.aborted
           /\ last.code = EInvalidSignature
           /\ last.op = "set" =>
                /\ last.obj.id \in Live
                /\ objs[last.obj.id] = last.obj
                /\ option_is_none(objs[last.obj.id].value)

C3_Witness ==
    /\ last.op = "set"
    /\ option_is_none(last.obj.value)
    /\ last.sig # sign(last.obj)
    /\ last.sig.kind = "tbls"
    /\ last.aborted

\* C4: set on an object whose value is present aborts with EAlreadySet, for
\* the valid signature and for every other one, never with
\* EInvalidSignature, and leaves id, epoch and value as they were.
C4_AlreadySetFirst ==
    (SetCalled /\ ~option_is_none(last.obj.value))
        => /\ last.aborted
           /\ last.code = EAlreadySet
           /\ last.code # EInvalidSignature
           /\ last.obj.id \in Live
           /\ objs[last.obj.id] = last.obj

C4_Witness ==
    /\ last.op = "set"
    /\ ~option_is_none(last.obj.value)
    /\ last.sig # sign(last.obj)
    /\ last.aborted /\ last.code = EAlreadySet

\* C5: set on an unset object with the object's valid signature sig succeeds,
\* and value(object) is then some(sha3_256(sig)), which is not some(sig).
C5_StoresDigestOfSignature ==
    (SetCalled /\ option_is_none(last.obj.value) /\ last.sig = sign(last.obj))
        => /\ ~last.aborted
           /\ last.obj.id \in Live =>
                /\ value(objs[last.obj.id]) = option_some(sha3_256(last.sig))
                /\ value(objs[last.obj.id]) # option_some(last.sig)

C5_Witness ==
    /\ last.op = "set"
    /\ ~last.aborted
    /\ last.sig = sign(last.obj)
    /\ last.obj.id \in Live

C7_Original ==
    /\ \A i \in Live : \A j \in Live \ {i} :
          to_bytes(Domain, objs[i].epoch, objs[i].id)
              # to_bytes(Domain, objs[j].epoch, objs[j].id)
    /\ (last.op = "set" /\ \E j \in Live \ {last.obj.id} :
                               native_verify_tbls_signature(objs[j].epoch,
                                   to_bytes(Domain, objs[j].epoch, objs[j].id), last.sig))
          => last.aborted /\ last.code = EInvalidSignature

\* C7, amended: the messages of two live objects with different ids differ,
\* and a signature valid for one makes set on the other abort, with
\* EInvalidSignature when the other is unset and with EAlreadySet when its
\* value is already present.
C7_OtherObjectsSignatureRejected ==
    /\ \A i \in Live : \A j \in Live \ {i} :
          to_bytes(Domain, objs[i].epoch, objs[i].id)
              # to_bytes(Domain, objs[j].epoch, objs[j].id)
    /\ (last.op = "set" /\ \E j \in Live \ {last.obj.id} :
                               native_verify_tbls_signature(objs[j].epoch,
                                   to_bytes(Domain, objs[j].epoch, objs[j].id), last.sig))
          => /\ last.aborted
             /\ last.code = IF option_is_none(last.obj.value)
                            THEN EInvalidSignature ELSE EAlreadySet

C7_Witness ==
    /\ last.op = "set"
    /\ option_is_none(last.obj.value)
    /\ \E j \in Live \ {last.obj.id} :
          /\ objs[j].epoch = last.obj.epoch
          /\ last.sig = sign(objs[j])
    /\ last.aborted /\ last.code = EInvalidSignature

\* C8: for an unset object created at ledger epoch E, set with the signature
\* of epoch E' # E over the message of (E', id) aborts with
\* EInvalidSignature, and the value stays none.
C8_OtherEpochsSignatureRejected ==
    (/\ SetCalled
     /\ option_is_none(last.obj.value)
     /\ \E e \in Epochs \ {LastCreatedEpoch} :
           last.sig = native_tbls_sign(e, to_bytes(Domain, e, last.obj.id)))
        => /\ last.aborted
           /\ last.code = EInvalidSignature
           /\ last.op = "set" => option_is_none(objs[last.obj.id].value)

C8_Witness ==
    /\ last.op = "set"
    /\ option_is_none(last.obj.value)
    /\ \E e \in Epochs \ {hist[last.obj.id].created_epoch} :
          last.sig = native_tbls_sign(e, to_bytes(Domain, e, last.obj.id))
    /\ last.aborted /\ last.code = EInvalidSignature

\* C9: the value accessor changes no state, and on an object on which a set
\* has succeeded it returns the value that set stored, whatever transactions
\* came in between.
C9_ReadsReturnTheSetValue ==
    [][last'.op = "value" =>
          /\ UNCHANGED <<objs, owner, nextId, curEpoch, created, hist>>
          /\ ~option_is_none(hist[last'.obj.id].set_value)
                => last'.retValue = hist[last'.obj.id].set_value]_vars

C9_Witness ==
    /\ last.op = "value"
    /\ ~option_is_none(last.retValue)
    /\ owner[last.obj.id] = "shared"
    /\ Len(hist[last.obj.id].calls) >= 2

\* C10: new does not abort, and the object it returns has value none, the
\* ledger's current epoch, and an id that no earlier new returned.
C10_NewObjectIsFresh ==
    last.op \in {"new", "new_set"} =>
        /\ last.op = "new" => ~last.aborted
        /\ option_is_none(last.obj.value)
        /\ last.obj.epoch = curEpoch
        /\ Len(created) >= 1
        /\ created[Len(created)] = last.obj.id
        /\ \A k \in 1 .. Len(created) - 1 : created[k] # last.obj.id

C10_Witness ==
    /\ last.op = "new"
    /\ Len(created) >= 2
    /\ created[1] \notin Live
    /\ last.obj.epoch >= 1

\* C11: destroy succeeds on an object whether its value is none or some, and
\* the object is then gone for good: its id is not live after the call and
\* never becomes live again, and set, value, epoch, transfer, share_object
\* and destroy act on live objects only.
C11_DestroyIsIrreversible ==
    [][/\ last'.op = "destroy"
            => /\ ~last'.aborted
               /\ last'.obj.id \in Live
               /\ last'.obj.id \notin DOMAIN objs'
       /\ \A i \in Ids : (i < nextId /\ i \notin Live) => i \notin DOMAIN objs'
       /\ last'.op \in {"set", "value", "epoch", "transfer", "share_object", "destroy"}
            => last'.obj.id \in Live /\ objs[last'.obj.id] = last'.obj]_vars

C11_Witness ==
    /\ last.op = "destroy"
    /\ ~option_is_none(last.obj.value)
    /\ last.obj.id \notin Live
    /\ Live # {}

\* C12: in every reachable state each live object has the id it was created
\* under and the epoch the ledger had at its creation, whatever calls
\* (successful or aborted set, transfer, share_object, accessors) and epoch
\* changes of the ledger came since; and the last call left both as it
\* found them.
C12_IdAndEpochImmutable ==
    /\ \A i \in Live : objs[i].id = i /\ objs[i].epoch = hist[i].created_epoch
    /\ (last.op \in {"set", "transfer", "share_object", "epoch", "value"}
          /\ last.obj.id \in Live)
            => /\ objs[last.obj.id].id = last.obj.id
               /\ objs[last.obj.id].epoch = last.obj.epoch

C12_Witness ==
    /\ last.op = "set"
    /\ ~last.aborted
    /\ owner[last.obj.id] = "shared"
    /\ curEpoch > hist[last.obj.id].created_epoch

\* C13 as stated: the message that sign signs and set verifies for an object
\* is "randomness", then the 8-byte big-endian encoding of its epoch, then
\* the bytes of its id.
C13_Original ==
    /\ \A i \in Live :
          sign(objs[i]).msg
              = Domain \o be_bytes(objs[i].epoch, 8) \o id_to_bytes(objs[i].id)
    /\ (last.op = "set" /\ ~last.aborted)
          => last.sig.msg
               = Domain \o be_bytes(last.obj.epoch, 8) \o id_to_bytes(last.obj.id)

\* C13, amended: the message that sign signs and set verifies for an object
\* is exactly the 10 bytes of "randomness", then the 8 bytes of its epoch
\* with the least significant byte first (the BCS encoding of a u64), then
\* the bytes of its id, each part of fixed width and nothing else.
C13_MessageLayout ==
    /\ \A i \in Live :
          /\ sign(objs[i]).msg
                = Domain \o le_bytes(objs[i].epoch, 8) \o id_to_bytes(objs[i].id)
          /\ Len(sign(objs[i]).msg) = 10 + 8 + IdWidth
    /\ (last.op = "set" /\ ~last.aborted)
          => /\ last.sig.msg
                   = Domain \o le_bytes(last.obj.epoch, 8) \o id_to_bytes(last.obj.id)
             /\ SubSeq(last.sig.msg, 1, 10) = Domain
             /\ SubSeq(last.sig.msg, 11, 18) = <<last.obj.epoch % 256, 0, 0, 0, 0, 0, 0, 0>>
             /\ SubSeq(last.sig.msg, 19, 18 + IdWidth) = id_to_bytes(last.obj.id)

C13_Witness ==
    /\ last.op = "set"
    /\ ~last.aborted
    /\ last.obj.epoch >= 1
    /\ last.obj.id \in Live

\* C14: an object on which no set with its valid signature was made is as
\* new created it, however many set calls on it aborted with
\* EInvalidSignature, so set with the valid signature succeeds on it as on a
\* freshly created object; and the set that succeeds after the aborted ones
\* stores sha3_256 of its signature.
C14_FailedSetsLeaveNoTrace ==
    /\ \A i \in Live :
          hist[i].calls = <<>> =>
              LET fresh == new([epoch |-> hist[i].created_epoch, ids_created |-> i]) IN
                /\ objs[i] = fresh
                /\ set(objs[i], sign(fresh)) = set(fresh, sign(fresh))
                /\ ~set(objs[i], sign(fresh)).aborted
    /\ (last.op = "set" /\ last.sig = sign(last.obj) /\ hist[last.obj.id].calls = <<"ok">>)
          => /\ ~last.aborted
             /\ objs[last.obj.id].value = option_some(sha3_256(last.sig))

C14_Witness ==
    /\ last.op = "set"
    /\ ~last.aborted
    /\ rejected[last.obj.id] >= 2
    /\ objs[last.obj.id].value = option_some(sha3_256(sign(last.obj)))

\* C15: set on an unset object created at ledger epoch E, called when the
\* ledger is at a later epoch, accepts the signature of epoch E over the
\* message of (E, id), and rejects with EInvalidSignature the signature of
\* the current epoch over the message of (current epoch, id).
C15_VerifiesAgainstStoredEpoch ==
    (/\ last.op = "set"
     /\ option_is_none(last.obj.value)
     /\ curEpoch > hist[last.obj.id].created_epoch)
        => LET E == hist[last.obj.id].created_epoch
               id == last.obj.id
           IN
           /\ last.sig = native_tbls_sign(E, to_bytes(Domain, E, id))
                => /\ ~last.aborted
                   /\ objs[id].value = option_some(sha3_256(last.sig))
           /\ last.sig = native_tbls_sign(curEpoch, to_bytes(Domain, curEpoch, id))
                => /\ last.aborted
                   /\ last.code = EInvalidSignature
                   /\ option_is_none(objs[id].value)

C15_Witness ==
    /\ last.op = "set"
    /\ option_is_none(last.obj.value)
    /\ curEpoch > hist[last.obj.id].created_epoch
    /\ last.sig = native_tbls_sign(curEpoch, to_bytes(Domain, curEpoch, last.obj.id))
    /\ last.aborted
    /\ \E j \in Live \ {last.obj.id} :
          /\ hist[j].created_epoch < curEpoch
          /\ hist[j].winner.key = hist[j].created_epoch
          /\ objs[j].value = option_some(sha3_256(hist[j].winner))

\* C16: in every reachable state the value of a live object is present only
\* if a set on that object succeeded earlier, and is then what that set
\* stored; an object on which no set has succeeded has value none, whatever
\* else was done with it, for as long as it lives.
C16_ValuePresentOnlyAfterSet ==
    \A i \in Live :
        /\ ~option_is_none(objs[i].value)
              => /\ hist[i].set_by \in {"set", "new_set"}
                 /\ objs[i].value = hist[i].set_value
        /\ hist[i].set_by = "none"
              => /\ option_is_none(objs[i].value)
                 /\ option_is_none(value(objs[i]))

C16_Witness ==
    /\ \E i \in Live :
          /\ hist[i].set_by = "none"
          /\ option_is_none(objs[i].value)
          /\ hist[i].created_epoch < curEpoch
          /\ last.op = "set" /\ last.obj.id = i /\ last.aborted
    /\ \E j \in Live : hist[j].set_by = "set" /\ ~option_is_none(objs[j].value)

\* C17: transfer and share_object change nothing but the owner of the object
\* they are given: its id, epoch and value, every other object and the rest
\* of the ledger are as before, the object is owned by an address after
\* transfer and shared after share_object, and set on it gives for every
\* signature what it gave before the call.
C17_TransferAndShareOnlyMoveOwnership ==
    [][last'.op \in {"transfer", "share_object"} =>
          LET id == last'.obj.id IN
            /\ objs' = objs
            /\ objs'[id] = last'.obj
            /\ UNCHANGED <<nextId, curEpoch, created, hist>>
            /\ \A j \in Live \ {id} : owner'[j] = owner[j]
            /\ owner'[id] \in (IF last'.op = "transfer" THEN Addresses ELSE {"shared"})
            /\ \A sig \in SigUniverse : set(objs'[id], sig) = set(objs[id], sig)]_vars

C17_Witness ==
    /\ last.op = "share_object"
    /\ ~option_is_none(last.obj.value)
    /\ owner[last.obj.id] = "shared"
    /\ \E j \in Live : option_is_none(objs[j].value) /\ owner[j] \in Addresses

\* C18: for each (epoch, id) exactly one byte string passes the verification
\* of set, so the value of an object is a function of its epoch and id
\* alone: in every reachable state, whoever called set, whenever and after
\* whatever other calls, a live object is either unset or holds sha3_256 of
\* the one signature for its (epoch, id).
C18_ValueDeterminedByEpochAndId ==
    /\ \A i \in Live :
          /\ AcceptedBy[objs[i].epoch, objs[i].id] = {sign(objs[i])}
          /\ objs[i].value \in {option_none, option_some(sha3_256(sign(objs[i])))}
    /\ (SetCalled /\ ~last.aborted)
          => /\ AcceptedBy[last.obj.epoch, last.obj.id] = {last.sig}
             /\ last.obj.id \in Live
                  => objs[last.obj.id].value = option_some(sha3_256(sign(last.obj)))

C18_Witness ==
    /\ last.op = "set"
    /\ ~last.aborted
    /\ \E i \in Live : \E j \in Live \ {i} :
          /\ owner[i] = "shared" /\ owner[j] \in Addresses
          /\ objs[i].value = option_some(sha3_256(sign(objs[i])))
          /\ objs[j].value = option_some(sha3_256(sign(objs[j])))
          /\ objs[i].value # objs[j].value

\* C19: in every state of the transactions page the key passed to
\* invalidateQueries is the key the hook caches under, and the query of the
\* active address, unless it is stale, holds transactions fetched for that
\* address from the selected API environment.
C19_InvalidationReachesTheHookKey ==
    /\ invalidateKey(activeAddress) = hookKey(activeAddress)
    /\ LET query == queryCache[hookKey(activeAddress)] IN
         ~isStale(query)
            => /\ query.data.env = selectedApiEnv
               /\ query.data.FromAddress = normalizeSuiAddress(activeAddress)
====
